---- MODULE Spec2Model ----
(***************************************************************************)
(* A model of sofascore_scraper_tools.py: the per-match derivation         *)
(* collect_match_data and the per-team batch collect_teams_data.           *)
(*                                                                         *)
(* Python values are represented as follows.                               *)
(*   - a str is a sequence of one-character strings ("2-1" is              *)
(*     <<"2", "-", "1">>), so that formatting, searching, splitting and    *)
(*     parsing are computed character by character;                        *)
(*   - an optional value is None == <<>> or Some(v) == <<v>>;              *)
(*   - a float parsed from decimal text is the pair <<n, d>> standing for  *)
(*     n / 10^d with trailing zeros removed (so 1.5 = 1.50);               *)
(*   - a dict / pandas row is a record; a key that is missing in Python    *)
(*     is a field that is missing from the record's DOMAIN;                *)
(*   - a DataFrame is the sequence of its rows (an empty DataFrame is      *)
(*     <<>>), in index order.                                              *)
(***************************************************************************)
EXTENDS Integers, Sequences, FiniteSets, TLC

None == <<>>
Some(v) == <<v>>

Min(S) == CHOOSE x \in S : \A y \in S : x <= y
Max(S) == CHOOSE x \in S : \A y \in S : x >= y

Digits == <<"0", "1", "2", "3", "4", "5", "6", "7", "8", "9">>
IsDigit(c) == \E k \in 1..10 : Digits[k] = c
DigitVal(c) == (CHOOSE k \in 1..10 : Digits[k] = c) - 1

\* 10^k
RECURSIVE Pow10(_)
Pow10(k) == IF k = 0 THEN 1 ELSE 10 * Pow10(k - 1)

\* str(n) for a Python int, as used by an f-string "{n}".
RECURSIVE NatToStr(_)
NatToStr(n) == IF n < 10 THEN <<Digits[n + 1]>>
               ELSE NatToStr(n \div 10) \o <<Digits[(n % 10) + 1]>>
IntToStr(n) == IF n < 0 THEN <<"-">> \o NatToStr(-n) ELSE NatToStr(n)

\* The value of a sequence of digits read as a decimal numeral.
RECURSIVE DigitsVal(_)
DigitsVal(s) == IF s = <<>> THEN 0
                ELSE 10 * DigitsVal(SubSeq(s, 1, Len(s) - 1)) + DigitVal(s[Len(s)])
AllDigits(s) == \A k \in 1..Len(s) : IsDigit(s[k])

\* int(s) / astype(int) on text: optional surrounding blanks, optional sign,
\* at least one digit.  None stands for the ValueError.
StripBlank(s) ==
    LET keep == {i \in 1..Len(s) : s[i] # " "}
    IN  IF keep = {} THEN <<>> ELSE SubSeq(s, Min(keep), Max(keep))
ParseInt(s) ==
    LET t    == StripBlank(s)
        sgn  == t # <<>> /\ t[1] \in {"-", "+"}
        body == IF sgn THEN Tail(t) ELSE t
    IN  IF body = <<>> \/ ~AllDigits(body) THEN None
        ELSE Some(IF sgn /\ t[1] = "-" THEN -DigitsVal(body) ELSE DigitsVal(body))

\* Normal form of the decimal n / 10^d.
RECURSIVE Decimal(_, _)
Decimal(n, d) == IF d > 0 /\ n % 10 = 0 THEN Decimal(n \div 10, d - 1) ELSE <<n, d>>

\* float(s) on text over blanks, sign, digits and ".": blanks around are
\* ignored, then [sign] digits [. digits] or [sign] . digits.  None stands
\* for the ValueError.
ParseFloat(s) ==
    LET t    == StripBlank(s)
        sgn  == t # <<>> /\ t[1] \in {"-", "+"}
        body == IF sgn THEN Tail(t) ELSE t
        dots == {i \in 1..Len(body) : body[i] = "."}
        ip   == IF dots = {} THEN body ELSE SubSeq(body, 1, Min(dots) - 1)
        fp   == IF dots = {} THEN <<>> ELSE SubSeq(body, Min(dots) + 1, Len(body))
        mag  == DigitsVal(ip) * Pow10(Len(fp)) + DigitsVal(fp)
    IN  IF \/ Cardinality(dots) > 1
           \/ ~AllDigits(ip) \/ ~AllDigits(fp)
           \/ (ip = <<>> /\ fp = <<>>)
        THEN None
        ELSE Some(Decimal(IF sgn /\ t[1] = "-" THEN -mag ELSE mag, Len(fp)))

\* re.search(pat, text) is not None, for a pattern of literal characters and
\* the metacharacter "." (any character).  pandas' Series.str.contains(pat)
\* has regex=True by default, so this is what it computes for one element.
MatchAt(text, pat, i) ==
    /\ i + Len(pat) - 1 <= Len(text)
    /\ \A k \in 1..Len(pat) : pat[k] = "." \/ pat[k] = text[i + k - 1]
str_contains(text, pat) == \E i \in 1..(Len(text) + 1) : MatchAt(text, pat, i)

\* text.split(sep)[0]: the text before the first occurrence of sep (a
\* literal), or the whole text when sep does not occur.
SplitFirst(text, sep) ==
    LET at == {i \in 1..Len(text) :
                 /\ i + Len(sep) - 1 <= Len(text)
                 /\ SubSeq(text, i, i + Len(sep) - 1) = sep}
    IN  IF at = {} THEN text ELSE SubSeq(text, 1, Min(at) - 1)

\* text.strip(ch): every leading and every trailing ch removed.
Strip(text, ch) ==
    LET keep == {i \in 1..Len(text) : text[i] # ch}
    IN  IF keep = {} THEN <<>> ELSE SubSeq(text, Min(keep), Max(keep))

\* An exception leaving a function, and a normal return.
Raise(e) == [raised |-> TRUE, exc |-> e]
Return(v) == [raised |-> FALSE, value |-> v]

\* int(match['id']): KeyError/ValueError when the record has no usable id.
match_id(match) == IF "id" \in DOMAIN match THEN Return(match.id) ELSE Raise("id")

is_home_match(match, team_name) == match.homeTeam.name = team_name

\* "O" if n % 2 == 1 else "E", then overwritten by "EN" if n == 0.
OddEvenPlain(n) == IF n % 2 = 1 THEN "O" ELSE "E"
OddEven(n) ==
    LET oe == IF n % 2 = 1 THEN "O" ELSE "E"
    IN  IF n = 0 THEN "EN" ELSE oe

\* Lines 185-191: W / L / D by strict comparison of the two scores.
MatchResultNoDraw(team_score, opponent_score) ==
    IF team_score >= opponent_score THEN "W" ELSE "L"
MatchResult(team_score, opponent_score) ==
    IF team_score > opponent_score THEN "W"
    ELSE IF team_score < opponent_score THEN "L" ELSE "D"

\* f"{a}-{b}" for two ints.
ScoreString(a, b) == IntToStr(a) \o <<"-">> \o IntToStr(b)

\* Lines 167-224: the fields computed from the match record alone.  A missing
\* key raises (KeyError) at the first line that reads it.
HasScores(match) ==
    /\ {"homeScore", "awayScore"} \subseteq DOMAIN match
    /\ \A s \in {match.homeScore, match.awayScore} :
          {"current", "period1"} \subseteq DOMAIN s
MatchFields(match, team_name) ==
    IF match_id(match).raised THEN Raise("id")
    ELSE IF "startTimestamp" \notin DOMAIN match THEN Raise("startTimestamp")
    ELSE IF ~HasScores(match) THEN Raise("score")
    ELSE
    LET is_home == is_home_match(match, team_name)
        team_score == IF is_home THEN match.homeScore.current
                      ELSE match.awayScore.current
        opponent_score == IF is_home THEN match.awayScore.current
                          ELSE match.homeScore.current
        ht_team_score == IF is_home THEN match.homeScore.period1
                         ELSE match.awayScore.period1
        ht_opponent_score == IF is_home THEN match.awayScore.period1
                             ELSE match.homeScore.period1
        total_goals == team_score + opponent_score
    IN  Return([
          result |-> MatchResult(team_score, opponent_score),
          over_under |-> IF 2 * total_goals > 5 THEN "T" ELSE "X",
          total_goals |-> total_goals,
          home_away |-> IF is_home THEN "H" ELSE "A",
          correct_score |-> ScoreString(team_score, opponent_score),
          ht_score |-> ScoreString(ht_team_score, ht_opponent_score),
          total_goal_oe |-> OddEven(total_goals),
          team_score_oe |-> OddEven(team_score),
          concede_oe |-> OddEven(opponent_score),
          btts |-> IF team_score > 0 /\ opponent_score > 0 THEN "Y" ELSE "N",
          \* strftime('%d-%m-%Y') of the local date is not rendered: the field
          \* carries the timestamp it is rendered from.
          match_date |-> match.startTimestamp])

CORNER == <<"c", "o", "r", "n", "e", "r">>
CARD == <<"C", "a", "r", "d">>

\* rows[rows['period'] == period][['home', 'away']].iloc[0], formatted
\* team-relative (lines 244-245, 251-252).  None: the IndexError was swallowed.
FirstRowStringHomeFirst(rows, period, is_home) ==
    LET sel == SelectSeq(rows, LAMBDA r : r.period = period)
    IN  IF sel = <<>> THEN None
        ELSE Some(sel[1].home \o <<"-">> \o sel[1].away)
FirstRowString(rows, period, is_home) ==
    LET sel == SelectSeq(rows, LAMBDA r : r.period = period)
    IN  IF sel = <<>> THEN None
        ELSE Some(IF is_home THEN sel[1].home \o <<"-">> \o sel[1].away
                  ELSE sel[1].away \o <<"-">> \o sel[1].home)

\* DataFrame.sum() of a column of ints: 0 for no rows.
RECURSIVE SumInts(_)
SumInts(s) == IF s = <<>> THEN 0 ELSE s[1] + SumInts(Tail(s))

\* rows[rows['period'] == period][['home', 'away']].astype(int).sum(),
\* formatted team-relative (lines 259-260, 266-267).  None: the ValueError of
\* astype(int) was swallowed.
SumString(rows, period, is_home) ==
    LET sel == SelectSeq(rows, LAMBDA r : r.period = period)
        bad == \E i \in 1..Len(sel) :
                  ParseInt(sel[i].home) = None \/ ParseInt(sel[i].away) = None
        home == SumInts([i \in 1..Len(sel) |-> ParseInt(sel[i].home)[1]])
        away == SumInts([i \in 1..Len(sel) |-> ParseInt(sel[i].away)[1]])
    IN  IF bad THEN None
        ELSE Some(IF is_home THEN IntToStr(home) \o <<"-">> \o IntToStr(away)
                  ELSE IntToStr(away) \o <<"-">> \o IntToStr(home))

\* Lines 232-269.  The two filters on 'key' (lines 239-240) are outside every
\* try: a non-empty table with a row that has no 'key' raises (KeyError when
\* the column is missing, ValueError for a mask holding NaN).
StatFields(match_stats, is_home) ==
    IF match_stats = <<>> THEN
        Return([corners_total |-> None, cards_total |-> None,
                corners_ht |-> None, cards_ht |-> None])
    ELSE IF \E i \in 1..Len(match_stats) : "key" \notin DOMAIN match_stats[i]
    THEN Raise("key")
    ELSE
    LET corners == SelectSeq(match_stats, LAMBDA r : str_contains(r.key, CORNER))
        cards == SelectSeq(match_stats, LAMBDA r : str_contains(r.key, CARD))
    IN  Return([corners_total |-> FirstRowString(corners, "ALL", is_home),
                cards_total |-> SumString(cards, "ALL", is_home),
                corners_ht |-> FirstRowString(corners, "1ST", is_home),
                cards_ht |-> SumString(cards, "1ST", is_home)])

HANDICAP == <<"h", "a", "n", "d", "i", "c", "a", "p">>

\* Lines 274-283.  None: the exception (KeyError on an empty table,
\* IndexError for no matching selection, ValueError of float) was swallowed.
HandicapValue(odds_data, team_name) ==
    LET markets == SelectSeq(odds_data,
                       LAMBDA r : str_contains(r.marketName, HANDICAP))
        selection == SelectSeq(markets,
                       LAMBDA r : str_contains(r.selection, team_name))
    IN  IF selection = <<>> THEN None
        ELSE ParseFloat(Strip(SplitFirst(selection[1].selection, <<")", " ">>), "("))

\* collect_match_data.  stats_resp and odds_resp are what the two fetches
\* (ss.scrape_team_match_stats, scrape_odds) do for this match: Return(table)
\* or Raise.  The fetches are not wrapped in a try.
collect_match_data(match, team_name, stats_resp, odds_resp) ==
    LET m == MatchFields(match, team_name) IN
    IF m.raised THEN m
    ELSE IF stats_resp.raised THEN stats_resp
    ELSE
    LET s == StatFields(stats_resp.value, is_home_match(match, team_name)) IN
    IF s.raised THEN s
    ELSE IF odds_resp.raised THEN odds_resp
    ELSE Return([
        result |-> m.value.result,
        over_under |-> m.value.over_under,
        total_goals |-> m.value.total_goals,
        home_away |-> m.value.home_away,
        correct_score |-> m.value.correct_score,
        ht_score |-> m.value.ht_score,
        total_goal_oe |-> m.value.total_goal_oe,
        team_score_oe |-> m.value.team_score_oe,
        concede_oe |-> m.value.concede_oe,
        btts |-> m.value.btts,
        corners_total |-> s.value.corners_total,
        cards_total |-> s.value.cards_total,
        corners_ht |-> s.value.corners_ht,
        cards_ht |-> s.value.cards_ht,
        asian_handicap |-> None,
        handicap_value |-> HandicapValue(odds_resp.value, team_name),
        match_date |-> m.value.match_date])

\* get_team_matches: the rows where the team is home or away.  The
\* sub-DataFrame keeps the index labels of its rows, in their order; it is
\* represented by these labels.
get_team_matches(mts, team_name) ==
    SelectSeq([i \in 1..Len(mts) |-> i],
              LAMBDA i : \/ mts[i].homeTeam.name = team_name
                         \/ mts[i].awayTeam.name = team_name)

(***************************************************************************)
(* State.  collect_teams_data runs as a sequence of steps; pc is its        *)
(* position.  The inputs (matches, team_names) and what the two remote      *)
(* sources answer for each match (world) are fixed by Init.                 *)
(***************************************************************************)
VARIABLES
    matches,       \* the matches DataFrame: a sequence of match records
    world,         \* world[i]: what the stats / odds fetch of matches[i] does
    team_names,    \* the list of team names
    pc,            \* position in collect_teams_data (or in a single call)
    ti,            \* index of the current team_name in team_names
    team_matches,  \* index labels of the current team's matches, in order
    mi,            \* position of the match loop in team_matches
    match_data,    \* rows of the current team; src is the row's match index
    team_data,     \* the result dict: team name -> rows
    events,        \* history: derivation calls and fetches, in order
    out            \* result of a single collect_match_data call

vars == <<matches, world, team_names, pc, ti, team_matches, mi, match_data,
          team_data, events, out>>

MaxMatches == 3
MaxTeams == 2
MaxScore == 3
MaxStatRows == 2
MaxOddsRows == 2

Str1(c) == <<c>>
TeamA == Str1("A")
TeamB == Str1("B")
TeamC == Str1("C")

\* r without its field k: a record whose key k is missing.
Without(r, k) == [f \in (DOMAIN r) \ {k} |-> r[f]]

MkMatch(i, home, away, hs, as, status) ==
    [id |-> i, startTimestamp |-> i,
     homeTeam |-> [name |-> home], awayTeam |-> [name |-> away],
     homeScore |-> hs, awayScore |-> as,
     status |-> [type |-> status]]

Score(c, p) == [current |-> c, period1 |-> p]

StatRow(key, period, home, away) ==
    [key |-> key, period |-> period, home |-> home, away |-> away]
CornerKicks == <<"c", "o", "r", "n", "e", "r", "K", "i", "c", "k", "s">>
YellowCards == <<"y", "e", "l", "l", "o", "w", "C", "a", "r", "d", "s">>
RedCards == <<"r", "e", "d", "C", "a", "r", "d", "s">>
Fouls == <<"f", "o", "u", "l", "s">>

OddsRow(marketName, selection) == [marketName |-> marketName, selection |-> selection]
AsianHandicap == <<"A", "s", "i", "a", "n", " ">> \o HANDICAP
FullTime == <<"F", "u", "l", "l", " ", "t", "i", "m", "e">>

\* ---- inputs of the batch ----
\* team_names holds distinct names, as get_teams_in_league builds it
\* (np.unique, line 96).
BatchTeams == {TeamA, TeamB, TeamC}
BatchPairings == {<<TeamA, TeamB>>, <<TeamC, TeamA>>}
WorldOk == [stats |-> Return(<<>>), odds |-> Return(<<>>)]
WorldStatsFail == [stats |-> Raise("stats fetch"), odds |-> Return(<<>>)]
WorldOddsFail ==
    [stats |-> Return(<<StatRow(CornerKicks, "ALL", Str1("5"), Str1("3"))>>),
     odds |-> Raise("odds fetch")]
BatchWorlds == {WorldOk, WorldStatsFail, WorldOddsFail}
BatchKinds == {"finished", "notstarted", "noscore", "noid"}
BatchMatch(i, pr, kind) ==
    LET good == MkMatch(i, pr[1], pr[2], Score(2, 1), Score(1, 0), "finished")
    IN  CASE kind = "finished" -> good
          [] kind = "notstarted" ->
                MkMatch(i, pr[1], pr[2], Score(0, 0), Score(0, 0), "notstarted")
          [] kind = "noscore" ->
                MkMatch(i, pr[1], pr[2], Without(Score(2, 1), "current"),
                        Score(1, 0), "finished")
          [] kind = "noid" -> Without(good, "id")
\* The matches a position of the input may hold: both pairings finished and
\* not started; a failing statistics fetch, a record without score and one
\* without id for A v B; a failing odds fetch for C v A.
BatchCases ==
    { c \in BatchPairings \X BatchKinds \X BatchWorlds :
        \/ c[2] \in {"finished", "notstarted"} /\ c[3] = WorldOk
        \/ c[1] = <<TeamA, TeamB>> /\ c[2] = "finished" /\ c[3] = WorldStatsFail
        \/ c[1] = <<TeamA, TeamB>> /\ c[2] \in {"noscore", "noid"} /\ c[3] = WorldOk
        \/ c[1] = <<TeamC, TeamA>> /\ c[2] = "finished" /\ c[3] = WorldOddsFail }

Init ==
    /\ \E n \in 0..MaxMatches :
         \E c \in [1..n -> BatchCases] :
            /\ matches = [i \in 1..n |-> BatchMatch(i, c[i][1], c[i][2])]
            /\ world = [i \in 1..n |-> c[i][3]]
    /\ \E n \in 0..MaxTeams :
          /\ team_names \in [1..n -> BatchTeams]
          /\ \A j, k \in 1..n : j # k => team_names[j] # team_names[k]
    /\ pc = "team_loop"
    /\ ti = 1
    /\ team_matches = <<>>
    /\ mi = 1
    /\ match_data = <<>>
    /\ team_data = <<>>
    /\ events = <<>>
    /\ out = None

\* Line 322: only completed matches are derived.
is_finished_any(match) == TRUE
is_finished(match) == match.status.type = "finished"

\* Line 327: match_data.append(row).
PrependRow(rows, entry) == <<entry>> \o rows
AppendRow(rows, entry) == Append(rows, entry)

\* Lines 333-337: team_data[team_name] = DataFrame(match_data) when there are
\* rows, and an empty DataFrame otherwise: the key is set in both branches.
StoreTeamIfRows(td, team_name, rows) ==
    IF rows = <<>> THEN td
    ELSE [n \in (DOMAIN td) \cup {team_name} |->
             IF n = team_name THEN rows ELSE td[n]]
StoreTeam(td, team_name, rows) ==
    [n \in (DOMAIN td) \cup {team_name} |->
        IF n = team_name THEN (IF rows # <<>> THEN rows ELSE <<>>) ELSE td[n]]

cur_team == team_names[ti]
cur_index == team_matches[mi]
cur_match == matches[cur_index]

\* Line 315: the next team, its matches filtered (line 316), match_data = [].
TeamStart ==
    /\ pc = "team_loop"
    /\ ti <= Len(team_names)
    /\ team_matches' = get_team_matches(matches, cur_team)
    /\ match_data' = <<>>
    /\ mi' = 1
    /\ pc' = "match_loop"
    /\ UNCHANGED <<matches, world, team_names, ti, team_data, events, out>>

\* Line 340: the loop over team_names is exhausted, team_data is returned.
ReturnData ==
    /\ pc = "team_loop"
    /\ ti > Len(team_names)
    /\ pc' = "done"
    /\ UNCHANGED <<matches, world, team_names, ti, team_matches, mi, match_data,
                   team_data, events, out>>

\* Line 322 false: a match that is not finished is passed over.
SkipUnfinished ==
    /\ pc = "match_loop"
    /\ mi <= Len(team_matches)
    /\ ~is_finished(cur_match)
    /\ mi' = mi + 1
    /\ UNCHANGED <<matches, world, team_names, pc, ti, team_matches, match_data,
                   team_data, events, out>>

\* Lines 328-330: the except clause.  Its message evaluates
\* int(match['id']) again; if that raises, the exception leaves
\* collect_teams_data.  Otherwise the loop continues with the next match.
HandlerRetry ==
    IF match_id(cur_match).raised
    THEN pc' = "raised" /\ mi' = mi
    ELSE pc' = "match_loop" /\ mi' = mi
Handler ==
    IF match_id(cur_match).raised
    THEN pc' = "raised" /\ mi' = mi
    ELSE pc' = "match_loop" /\ mi' = mi + 1

\* Lines 322-324 and 167-224: collect_match_data is entered for a finished
\* match and computes the fields of the match record.
DeriveBegin ==
    /\ pc = "match_loop"
    /\ mi <= Len(team_matches)
    /\ is_finished(cur_match)
    /\ events' = Append(events, <<"call", ti, cur_index>>)
    /\ IF MatchFields(cur_match, cur_team).raised
       THEN Handler
       ELSE pc' = "scrape_stats" /\ mi' = mi
    /\ UNCHANGED <<matches, world, team_names, ti, team_matches, match_data,
                   team_data, out>>

\* Lines 226-269: the statistics fetch and the four statistics fields.
ScrapeStats ==
    /\ pc = "scrape_stats"
    /\ events' = Append(events, <<"stats", cur_match.id>>)
    /\ LET resp == world[cur_index].stats IN
       IF resp.raised \/ StatFields(resp.value, is_home_match(cur_match, cur_team)).raised
       THEN Handler
       ELSE pc' = "scrape_odds" /\ mi' = mi
    /\ UNCHANGED <<matches, world, team_names, ti, team_matches, match_data,
                   team_data, out>>

\* Lines 271-309 and 327: the odds fetch, the handicap, and the row appended.
ScrapeOdds ==
    /\ pc = "scrape_odds"
    /\ events' = Append(events, <<"odds", cur_match.id>>)
    /\ LET data == collect_match_data(cur_match, cur_team,
                                      world[cur_index].stats, world[cur_index].odds)
       IN  IF data.raised
           THEN Handler /\ match_data' = match_data
           ELSE /\ match_data' = AppendRow(match_data,
                                           [src |-> cur_index, row |-> data.value])
                /\ pc' = "match_loop"
                /\ mi' = mi + 1
    /\ UNCHANGED <<matches, world, team_names, ti, team_matches, team_data, out>>

\* Lines 332-338: the team's rows are stored under its name (an empty
\* DataFrame when there is none), and the team loop advances.
TeamEnd ==
    /\ pc = "match_loop"
    /\ mi > Len(team_matches)
    /\ team_data' = StoreTeam(team_data, cur_team, match_data)
    /\ ti' = ti + 1
    /\ pc' = "team_loop"
    /\ UNCHANGED <<matches, world, team_names, team_matches, mi, match_data,
                   events, out>>

Next ==
    \/ TeamStart
    \/ ReturnData
    \/ SkipUnfinished
    \/ DeriveBegin
    \/ ScrapeStats
    \/ ScrapeOdds
    \/ TeamEnd

Spec == Init /\ [][Next]_vars

(***************************************************************************)
(* Properties of collect_teams_data.                                       *)
(***************************************************************************)
Played(i, name) ==
    matches[i].homeTeam.name = name \/ matches[i].awayTeam.name = name
Finished(i) == matches[i].status.type = "finished"
FinishedOf(name) == {i \in 1..Len(matches) : Played(i, name) /\ Finished(i)}
\* The derivation of matches[i] for the team succeeds.
Derivable(i, name) ==
    ~collect_match_data(matches[i], name, world[i].stats, world[i].odds).raised
InTeamLoopBody == pc \in {"match_loop", "scrape_stats", "scrape_odds", "raised"}
Srcs(rows) == {rows[k].src : k \in 1..Len(rows)}
Stopped == pc \in {"done", "raised"}

\* C1 (as claimed): when collect_teams_data has stopped, every team of
\* team_names is in the result, with a row for each of its finished matches
\* whose derivation succeeds: no failing derivation aborts the batch.
C1_FailureNeverAbortsBatch ==
    Stopped =>
        \A t \in 1..Len(team_names) :
            /\ team_names[t] \in DOMAIN team_data
            /\ \A i \in FinishedOf(team_names[t]) :
                  Derivable(i, team_names[t]) =>
                      i \in Srcs(team_data[team_names[t]])

\* C2: a row exists only for a finished match the team played in, the
\* derivation is only ever called for such a match, and a team has at most as
\* many rows as finished matches.
RowsOnlyFinished(rows, name) ==
    /\ \A k \in 1..Len(rows) :
          /\ rows[k].src \in 1..Len(matches)
          /\ matches[rows[k].src].status.type = "finished"
          /\ Played(rows[k].src, name)
    /\ Len(rows) <= Cardinality(FinishedOf(name))
C2_RowsOnlyForFinishedMatches ==
    /\ \A n \in DOMAIN team_data : RowsOnlyFinished(team_data[n], n)
    /\ InTeamLoopBody => RowsOnlyFinished(match_data, team_names[ti])
    /\ \A e \in 1..Len(events) :
          events[e][1] = "call" =>
              /\ matches[events[e][3]].status.type = "finished"
              /\ Played(events[e][3], team_names[events[e][2]])
\* A returned result in which a team has a row and also an unfinished match.
C2_Witness ==
    /\ pc = "done"
    /\ \E n \in DOMAIN team_data :
          /\ team_data[n] # <<>>
          /\ \E i \in 1..Len(matches) : Played(i, n) /\ ~Finished(i)

\* C3: the rows of a team are in the order of its matches in the input: the
\* match indices of consecutive rows increase.
InInputOrder(rows) ==
    \A j, k \in 1..Len(rows) : j < k => rows[j].src < rows[k].src
C3_RowsInInputOrder ==
    /\ \A n \in DOMAIN team_data : InInputOrder(team_data[n])
    /\ InInputOrder(match_data)
\* A returned result with two rows of a team around a match of that team that
\* gave no row (unfinished, or its derivation failed).
C3_Witness ==
    /\ pc = "done"
    /\ \E n \in DOMAIN team_data :
          /\ Len(team_data[n]) = 2
          /\ \E i \in 1..Len(matches) :
                /\ Played(i, n)
                /\ team_data[n][1].src < i
                /\ i < team_data[n][2].src

\* C4: when collect_teams_data returns, every name of team_names is a key of
\* the result, and a team none of whose matches gave a row is mapped to the
\* empty dataset.
C4_EveryTeamIsAKey ==
    pc = "done" =>
        \A t \in 1..Len(team_names) :
            /\ team_names[t] \in DOMAIN team_data
            /\ (\A i \in FinishedOf(team_names[t]) : ~Derivable(i, team_names[t]))
                  => team_data[team_names[t]] = <<>>
\* A returned result with a team that has matches but no row, and a team
\* that has rows.
C4_Witness ==
    /\ pc = "done"
    /\ \E t \in 1..Len(team_names) :
          /\ team_data[team_names[t]] = <<>>
          /\ \E i \in 1..Len(matches) : Played(i, team_names[t])
    /\ \E t \in 1..Len(team_names) : team_data[team_names[t]] # <<>>

\* The number of fetches of one kind for a match identifier (the match at
\* position i has identifier i).
Count(kind, id) ==
    Cardinality({e \in 1..Len(events) : events[e] = <<kind, id>>})

\* C9 (as claimed): in one run, no match identifier has its statistics or
\* its odds fetched more than once.
C9_FetchOncePerMatchId ==
    \A i \in 1..Len(matches) :
        Count("stats", i) <= 1 /\ Count("odds", i) <= 1

\* C9 (amended): the fetches are made once per derivation call, in sequence:
\* a statistics fetch directly follows the call it belongs to, an odds fetch
\* directly follows the statistics fetch of the same match, and no match row
\* is derived twice for the same entry of team_names.  So a match is fetched
\* once for each entry of team_names that names its home or its away team.
C9_FetchOncePerCall ==
    /\ \A e \in 1..Len(events) :
          events[e][1] = "stats" =>
              /\ e > 1
              /\ events[e - 1][1] = "call"
              /\ matches[events[e - 1][3]].id = events[e][2]
    /\ \A e \in 1..Len(events) :
          events[e][1] = "odds" =>
              /\ e > 1
              /\ events[e - 1] = <<"stats", events[e][2]>>
    /\ \A e, f \in 1..Len(events) :
          (events[e][1] = "call" /\ events[e] = events[f]) => e = f
    /\ \A i \in 1..Len(matches) :
          LET calls == {e \in 1..Len(events) :
                           events[e][1] = "call" /\ events[e][3] = i}
          IN  Count("stats", i) <= Cardinality(calls)
\* A returned result for which one match was fetched twice, its home and its
\* away team both being in team_names.
C9_Witness ==
    /\ pc = "done"
    /\ \E i \in 1..Len(matches) :
          /\ Count("stats", i) = 2
          /\ Count("odds", i) = 2
          /\ \E t, u \in 1..Len(team_names) :
                /\ team_names[t] = matches[i].homeTeam.name
                /\ team_names[u] = matches[i].awayTeam.name

(***************************************************************************)
(* A single call of collect_match_data, on inputs drawn from bounded sets. *)
(***************************************************************************)
SeqUpTo(S, n) == UNION {[1..k -> S] : k \in 0..n}

TeamDot == <<"A", ".">>
TeamAB == <<"A", "B">>
RowNames == {TeamA, TeamB, TeamDot, TeamAB}

\* "(<number>) <name>" and some texts that are not of that form.
Sel(number, name) == <<"(">> \o number \o <<")", " ">> \o name
OddsSelections ==
    { Sel(Str1("1"), TeamA),
      Sel(<<"-", "1", ".", "5">>, TeamDot),
      Sel(Str1("2"), TeamAB),
      Sel(<<"0", ".", "2", "5">>, TeamB),
      Sel(Str1("x"), TeamA),
      TeamA }
OddsRows == {OddsRow(mk, sl) : mk \in {AsianHandicap, FullTime}, sl \in OddsSelections}

StatRows ==
    { StatRow(CornerKicks, "ALL", Str1("5"), Str1("3")),
      StatRow(CornerKicks, "1ST", Str1("2"), Str1("1")),
      StatRow(YellowCards, "ALL", Str1("2"), Str1("1")),
      StatRow(RedCards, "ALL", Str1("1"), Str1("0")),
      StatRow(YellowCards, "1ST", Str1("1"), Str1("0")),
      StatRow(YellowCards, "ALL", Str1("x"), Str1("1")),
      StatRow(Fouls, "ALL", Str1("9"), Str1("7")),
      Without(StatRow(CornerKicks, "ALL", Str1("5"), Str1("3")), "key") }

FullStats ==
    << StatRow(CornerKicks, "ALL", Str1("5"), Str1("3")),
       StatRow(CornerKicks, "1ST", Str1("2"), Str1("1")),
       StatRow(YellowCards, "ALL", Str1("2"), Str1("1")),
       StatRow(RedCards, "ALL", Str1("1"), Str1("0")),
       StatRow(YellowCards, "1ST", Str1("1"), Str1("0")) >>
OneOdds == << OddsRow(AsianHandicap, Sel(Str1("1"), TeamA)) >>

\* Every score line up to MaxScore, each half-time score within its full-time
\* score; a full and an empty statistics table, or a failing fetch.
ScoreInputs ==
    { << MkMatch(1, TeamA, TeamB, Score(hc, hp), Score(ac, ap), "finished"),
         t, [stats |-> st, odds |-> Return(<<>>)] >> :
        hc \in 0..MaxScore, hp \in 0..MaxScore, ac \in 0..MaxScore,
        ap \in 0..MaxScore, t \in {TeamA, TeamB},
        st \in {Return(<<>>), Return(FullStats), Raise("stats fetch")} }

\* Every statistics table of at most MaxStatRows rows.
StatInputs ==
    { << MkMatch(1, TeamA, TeamB, Score(2, 1), Score(1, 0), "finished"),
         t, [stats |-> Return(st), odds |-> od] >> :
        t \in {TeamA, TeamB}, st \in SeqUpTo(StatRows, MaxStatRows),
        od \in {Return(<<>>), Return(OneOdds)} }

\* Every odds table of at most MaxOddsRows rows, for every pair of names.
OddsInputs ==
    { << MkMatch(1, h, a, Score(2, 1), Score(1, 0), "finished"),
         t, [stats |-> Return(<<>>), odds |-> od] >> :
        h \in RowNames, a \in RowNames, t \in RowNames,
        od \in {Return(o) : o \in SeqUpTo(OddsRows, MaxOddsRows)}
              \cup {Raise("odds fetch")} }

InitRow ==
    /\ \E inp \in ScoreInputs \cup StatInputs \cup OddsInputs :
          /\ inp[1].homeScore.period1 <= inp[1].homeScore.current
          /\ inp[1].awayScore.period1 <= inp[1].awayScore.current
          /\ inp[1].homeTeam.name # inp[1].awayTeam.name
          /\ inp[2] \in {inp[1].homeTeam.name, inp[1].awayTeam.name}
          /\ matches = <<inp[1]>>
          /\ team_names = <<inp[2]>>
          /\ world = <<inp[3]>>
    /\ pc = "call"
    /\ ti = 1
    /\ team_matches = <<1>>
    /\ mi = 1
    /\ match_data = <<>>
    /\ team_data = <<>>
    /\ events = <<>>
    /\ out = None

\* One call collect_match_data(match, team_name), as a whole.
Derive ==
    /\ pc = "call"
    /\ out' = Some(collect_match_data(matches[1], team_names[1],
                                      world[1].stats, world[1].odds))
    /\ pc' = IF out'[1].raised THEN "raised" ELSE "return"
    /\ UNCHANGED <<matches, world, team_names, ti, team_matches, mi, match_data,
                   team_data, events>>

NextRow == Derive

SpecRow == InitRow /\ [][NextRow]_vars

(***************************************************************************)
(* Properties of collect_match_data.                                       *)
(***************************************************************************)
in_match == matches[1]
in_team == team_names[1]
in_stats == world[1].stats
in_odds == world[1].odds
Returned == pc = "return"

\* sub occurs in text, character for character.
HasSub(text, sub) ==
    \E i \in 1..(Len(text) - Len(sub) + 1) : SubSeq(text, i, i + Len(sub) - 1) = sub

\* C5 (as claimed): for a well-formed match record, whatever tables the
\* statistics and the odds source return, collect_match_data does not raise.
C5_StatsAndOddsNeverRaise ==
    ( /\ pc \in {"return", "raised"}
      /\ ~MatchFields(in_match, in_team).raised
      /\ ~in_stats.raised
      /\ ~in_odds.raised )
    => ~out[1].raised

\* The statistics table has no row of the metric with the period tag.
NoStatRow(metric, period) ==
    \A k \in 1..Len(in_stats.value) :
        ~( /\ "key" \in DOMAIN in_stats.value[k]
           /\ HasSub(in_stats.value[k].key, metric)
           /\ in_stats.value[k].period = period )

\* C6 (as claimed): each of corners_total, corners_ht, cards_total, cards_ht
\* is None when the statistics table has no row of its metric and period.
C6_AbsentWithoutStatRow ==
    Returned =>
        /\ NoStatRow(CORNER, "ALL") => out[1].value.corners_total = None
        /\ NoStatRow(CORNER, "1ST") => out[1].value.corners_ht = None
        /\ NoStatRow(CARD, "ALL") => out[1].value.cards_total = None
        /\ NoStatRow(CARD, "1ST") => out[1].value.cards_ht = None

\* "{team value}-{opponent value}": the home value first iff the queried team
\* is the home team.
TeamFirst(home, away) ==
    IF in_match.homeTeam.name = in_team
    THEN home \o <<"-">> \o away
    ELSE away \o <<"-">> \o home
StatRowsOf(metric, period) ==
    SelectSeq(in_stats.value,
              LAMBDA r : HasSub(r.key, metric) /\ r.period = period)
RECURSIVE Total(_, _)
Total(rows, side) ==
    IF rows = <<>> THEN 0 ELSE ParseInt(rows[1][side])[1] + Total(Tail(rows), side)

\* C7: correct_score, ht_score and, when present, corners_total, corners_ht,
\* cards_total and cards_ht are "{team value}-{opponent value}", the queried
\* team's value first: the home value first iff the team is the home team.
C7_TeamRelativeOrder ==
    Returned =>
        /\ out[1].value.correct_score =
              TeamFirst(IntToStr(in_match.homeScore.current),
                        IntToStr(in_match.awayScore.current))
        /\ out[1].value.ht_score =
              TeamFirst(IntToStr(in_match.homeScore.period1),
                        IntToStr(in_match.awayScore.period1))
        /\ \A f \in {<<"corners_total", "ALL">>, <<"corners_ht", "1ST">>} :
              out[1].value[f[1]] # None =>
                  LET r == StatRowsOf(CORNER, f[2])[1]
                  IN  out[1].value[f[1]] = Some(TeamFirst(r.home, r.away))
        /\ \A f \in {<<"cards_total", "ALL">>, <<"cards_ht", "1ST">>} :
              out[1].value[f[1]] # None =>
                  LET rs == StatRowsOf(CARD, f[2])
                  IN  out[1].value[f[1]] =
                         Some(TeamFirst(IntToStr(Total(rs, "home")),
                                        IntToStr(Total(rs, "away"))))
\* The queried team is away and won 2-1; corners 5-3 and cards 3-1 for the
\* home side are reported 3-5 and 1-3.
C7_Witness ==
    /\ Returned
    /\ in_match.awayTeam.name = in_team
    /\ in_match.homeScore.current = 1
    /\ in_match.awayScore.current = 2
    /\ out[1].value.correct_score = <<"2", "-", "1">>
    /\ out[1].value.corners_total = Some(<<"3", "-", "5">>)
    /\ out[1].value.cards_total = Some(<<"1", "-", "3">>)

team_goals ==
    IF in_match.homeTeam.name = in_team THEN in_match.homeScore.current
    ELSE in_match.awayScore.current
opponent_goals ==
    IF in_match.homeTeam.name = in_team THEN in_match.awayScore.current
    ELSE in_match.homeScore.current
IsOddEvenOf(label, n) ==
    /\ label = "EN" <=> n = 0
    /\ label = "O" <=> n % 2 = 1
    /\ label = "E" <=> (n % 2 = 0 /\ n # 0)

\* C8: total_goal_oe, team_score_oe and concede_oe classify the total, the
\* team's goals and the opponent's goals: "EN" iff 0, "O" iff odd, "E" iff
\* even and not 0, each on its own value.
C8_OddEvenClassification ==
    Returned =>
        /\ IsOddEvenOf(out[1].value.total_goal_oe, team_goals + opponent_goals)
        /\ IsOddEvenOf(out[1].value.team_score_oe, team_goals)
        /\ IsOddEvenOf(out[1].value.concede_oe, opponent_goals)
\* The team scored 0 and conceded 2: "EN" for its goals, "E" for the other two.
C8_Witness ==
    /\ Returned
    /\ team_goals = 0
    /\ opponent_goals = 2
    /\ out[1].value.team_score_oe = "EN"
    /\ out[1].value.concede_oe = "E"
    /\ out[1].value.total_goal_oe = "E"

\* The handicap as the claim words it: the first row whose market name
\* contains "handicap" and whose selection text contains the team name; the
\* text before ") ", without a leading "(", read as a number.
StatedHandicap(odds_data, team_name) ==
    LET sel == SelectSeq(odds_data,
                   LAMBDA r : /\ HasSub(r.marketName, HANDICAP)
                              /\ HasSub(r.selection, team_name))
        head == SplitFirst(sel[1].selection, <<")", " ">>)
    IN  IF sel = <<>> THEN None
        ELSE ParseFloat(IF head # <<>> /\ head[1] = "(" THEN Tail(head) ELSE head)

\* C10 (as claimed): handicap_value is the number of the first handicap
\* selection that contains the team name, and None when there is none or it
\* does not parse.
C10_FirstHandicapSelection ==
    Returned =>
        out[1].value.handicap_value = StatedHandicap(in_odds.value, in_team)

\* C10, for a team name without "." (a name that reads the same as a regular
\* expression and as plain text): the claimed value is the computed one.
C10_PlainNameHandicap ==
    (Returned /\ ~HasSub(in_team, Str1(".")))
    => out[1].value.handicap_value = StatedHandicap(in_odds.value, in_team)

\* The other side of the match, and the result derived for it.
other_team ==
    IF in_match.homeTeam.name = in_team THEN in_match.awayTeam.name
    ELSE in_match.homeTeam.name
other_result == MatchFields(in_match, other_team).value.result

\* C11: result is "W" iff the queried team's full-time score (the home score
\* iff it is the home team) is greater than the opponent's, "L" iff it is
\* smaller and "D" iff they are equal; so the two sides of one match get W
\* and L, or D both.
C11_ResultByStrictComparison ==
    Returned =>
        /\ out[1].value.result = "W" <=> team_goals > opponent_goals
        /\ out[1].value.result = "L" <=> team_goals < opponent_goals
        /\ out[1].value.result = "D" <=> team_goals = opponent_goals
        /\ out[1].value.result = "W" <=> other_result = "L"
        /\ out[1].value.result = "L" <=> other_result = "W"
        /\ (in_match.homeScore.current = in_match.awayScore.current)
              => (out[1].value.result = "D" /\ other_result = "D")
\* The queried team is away in a 2-2 draw: "D" for it and for the home side.
C11_Witness ==
    /\ Returned
    /\ in_match.awayTeam.name = in_team
    /\ in_match.homeScore.current = 2
    /\ in_match.awayScore.current = 2
    /\ out[1].value.result = "D"
    /\ other_result = "D"
====
